---- MODULE Spec2Model ----
(***************************************************************************)
(* Overlay engine of the passport-form filler (fill_passport_form.py with  *)
(* the layout schema of field_config.py).                                  *)
(*                                                                         *)
(* Python values are tagged records.  A Python str is a sequence of        *)
(* tokens: a token is a maximal alphanumeric run ("Legally", "9225") or a  *)
(* single other character (" ", "_", ".", "/").  Dictionary keys are whole *)
(* names.  An exception is the name of its class; "" means none raised.    *)
(***************************************************************************)
EXTENDS Integers, Sequences, FiniteSets, TLC

VARIABLES data, op, path, tmplOK, page, doc, exc, ret, earlier, req, resp

vars == <<data, op, path, tmplOK, page, doc, exc, ret, earlier, req, resp>>

(* ---------------------------- bounds ----------------------------------- *)

MaxSegs == 3

MaxInt == 1

MaxCalls == 2

(* ------------------------ Python values -------------------------------- *)

S(s) == [t |-> "str", s |-> s]

N == [t |-> "none"]

B(b) == [t |-> "bool", b |-> b]

I(n) == [t |-> "int", n |-> n]

D(d) == [t |-> "dict", d |-> d]

EmptyDict == D(<<>>)

IsDict(v) == v.t = "dict"

IsStr(v) == v.t = "str"

\* bool(v): empty str, None, False, 0 and {} are falsy
Truthy(v) ==
    CASE v.t = "str"  -> v.s # <<>>
      [] v.t = "none" -> FALSE
      [] v.t = "bool" -> v.b
      [] v.t = "int"  -> v.n # 0
      [] v.t = "dict" -> DOMAIN v.d # {}

\* d.get(key, default) on a dict
dict_get(v, key, default) == IF key \in DOMAIN v.d THEN v.d[key] ELSE default

(* --------------------------- str methods ------------------------------- *)

\* the letter-case variants of the words the inputs are made of
Vocab ==
    { <<"adult", "Adult", "ADULT">>, <<"minor", "Minor", "MINOR">>,
      <<"male", "Male", "MALE">>, <<"female", "Female", "FEMALE">>,
      <<"single", "Single", "SINGLE">>, <<"widow", "Widow", "WIDOW">>,
      <<"legally", "Legally", "LEGALLY">>,
      <<"separated", "Separated", "SEPARATED">>,
      <<"birth", "Birth", "BIRTH">>,
      <<"naturalization", "Naturalization", "NATURALIZATION">>,
      <<"others", "Others", "OTHERS">>,
      <<"regular", "Regular", "REGULAR">>,
      <<"ra9225", "Ra9225", "RA9225">>,
      <<"r", "R", "R">>, <<"a", "A", "A">>, <<"n", "N", "N">>,
      <<"yes", "Yes", "YES">>, <<"zzz", "Zzz", "ZZZ">>,
      <<"maria", "Maria", "MARIA">>, <<"cruz", "Cruz", "CRUZ">>,
      <<"santos", "Santos", "SANTOS">>, <<"reyes", "Reyes", "REYES">>,
      <<"manila", "Manila", "MANILA">> }

LowerTok(tok) ==
    IF \E w \in Vocab : tok \in {w[2], w[3]}
    THEN (CHOOSE w \in Vocab : tok \in {w[2], w[3]})[1]
    ELSE tok

UpperTok(tok) ==
    IF \E w \in Vocab : tok \in {w[1], w[2]}
    THEN (CHOOSE w \in Vocab : tok \in {w[1], w[2]})[3]
    ELSE tok

\* s.lower()
Lower(s) == [i \in 1..Len(s) |-> LowerTok(s[i])]

\* s.upper()
Upper(s) == [i \in 1..Len(s) |-> UpperTok(s[i])]

\* s.replace(" ", "_")
ReplaceSpace(s) == [i \in 1..Len(s) |-> IF s[i] = " " THEN "_" ELSE s[i]]

IsSpace(tok) == tok \in {" ", "\t"}

\* s.strip()
Strip(s) ==
    LET Inner == {i \in 1..Len(s) : ~IsSpace(s[i])}
        Lo == CHOOSE i \in Inner : \A j \in Inner : i <= j
        Hi == CHOOSE i \in Inner : \A j \in Inner : j <= i
    IN  IF Inner = {} THEN <<>> ELSE SubSeq(s, Lo, Hi)

RECURSIVE Join(_, _)
\* sep.join(parts)
Join(parts, sep) ==
    IF parts = <<>> THEN <<>>
    ELSE IF Len(parts) = 1 THEN parts[1]
    ELSE parts[1] \o sep \o Join(Tail(parts), sep)

RECURSIVE Split(_, _)
\* s.split(sep): the segments between the separators, empty ones included
Split(s, sep) ==
    LET Seps == {i \in 1..Len(s) : s[i] = sep}
        First == CHOOSE i \in Seps : \A j \in Seps : i <= j
    IN  IF Seps = {} THEN <<s>>
        ELSE <<SubSeq(s, 1, First - 1)>> \o Split(SubSeq(s, First + 1, Len(s)), sep)

RECURSIVE Concat(_)
\* the name a run of tokens spells
Concat(s) == IF s = <<>> THEN "" ELSE s[1] \o Concat(Tail(s))

RECURSIVE Repr(_)
\* repr(v), as str() prints the items of a dict
Repr(v) ==
    CASE v.t = "str"  -> <<"'">> \o v.s \o <<"'">>
      [] v.t = "none" -> <<"None">>
      [] v.t = "bool" -> IF v.b THEN <<"True">> ELSE <<"False">>
      [] v.t = "int"  -> <<ToString(v.n)>>
      [] v.t = "dict" ->
            LET Item(k) == <<"'", k, "'", ":", " ">> \o Repr(v.d[k])
                ks == CHOOSE q \in [1..Cardinality(DOMAIN v.d) -> DOMAIN v.d] :
                          \A i, j \in DOMAIN q : i # j => q[i] # q[j]
            IN  <<"{">> \o Join([i \in DOMAIN ks |-> Item(ks[i])], <<",", " ">>) \o <<"}">>

\* str(v)
Str(v) == IF v.t = "str" THEN v.s ELSE Repr(v)

(* --------------------- Layout Schema (field_config.py) ----------------- *)

FONT_NAME == "helv"

FONT_SIZE == 9

CHECKBOX_CHAR == <<"X">>

CHECKBOX_FONT_SIZE == 10

\* field name -> (x, y)
FIELD_COORDINATES ==
    [ checkbox_adult |-> <<33, 152>>,
      checkbox_minor |-> <<82, 152>>,
      last_name |-> <<35, 180>>,
      first_name |-> <<315, 180>>,
      middle_name |-> <<35, 214>>,
      place_of_birth |-> <<315, 214>>,
      dob_day |-> <<45, 253>>,
      dob_month |-> <<100, 253>>,
      dob_year |-> <<165, 253>>,
      checkbox_male |-> <<407, 254>>,
      checkbox_female |-> <<447, 254>>,
      national_id |-> <<380, 270>>,
      checkbox_single |-> <<110, 303>>,
      checkbox_married |-> <<182, 303>>,
      checkbox_widow |-> <<259, 303>>,
      checkbox_legally_separated |-> <<342, 303>>,
      checkbox_annulled |-> <<454, 303>>,
      present_address |-> <<92, 318>>,
      contact_no |-> <<75, 333>>,
      email |-> <<335, 333>>,
      spouse_name |-> <<90, 348>>,
      spouse_citizenship |-> <<355, 348>>,
      father_name |-> <<86, 362>>,
      father_citizenship |-> <<351, 362>>,
      mother_maiden_name |-> <<115, 376>>,
      mother_citizenship |-> <<353, 376>>,
      checkbox_birth |-> <<132, 395>>,
      checkbox_election |-> <<189, 395>>,
      checkbox_naturalization |-> <<254, 395>>,
      checkbox_ra9225 |-> <<337, 395>>,
      checkbox_others_citizenship |-> <<409, 395>>,
      others_citizenship_text |-> <<455, 394>>,
      checkbox_foreign_citizenship_yes |-> <<170, 416>>,
      checkbox_foreign_citizenship_no |-> <<193, 416>>,
      foreign_citizenship_country |-> <<145, 424>>,
      checkbox_foreign_mode_birth |-> <<95, 435>>,
      checkbox_foreign_mode_naturalization |-> <<123, 435>>,
      checkbox_foreign_mode_others |-> <<177, 435>>,
      foreign_mode_others_text |-> <<220, 433>>,
      checkbox_military_yes |-> <<409, 413>>,
      checkbox_military_no |-> <<438, 413>>,
      military_country |-> <<400, 421>>,
      checkbox_renounced_yes |-> <<436, 439>>,
      checkbox_renounced_no |-> <<465, 439>>,
      checkbox_foreign_passport_yes |-> <<166, 459>>,
      checkbox_foreign_passport_no |-> <<194, 459>>,
      foreign_passport_country |-> <<145, 467>>,
      checkbox_ph_passport_yes |-> <<439, 454>>,
      checkbox_ph_passport_no |-> <<468, 454>>,
      ph_passport_number |-> <<415, 462>>,
      ph_passport_date_of_issue |-> <<340, 472>>,
      ph_passport_place_of_issue |-> <<470, 472>>,
      accompanied_by |-> <<115, 633>>,
      minor_relationship |-> <<155, 642>>,
      accompanying_mobile |-> <<170, 652>>,
      emergency_name |-> <<420, 633>>,
      emergency_mobile |-> <<340, 642>>,
      emergency_relationship |-> <<480, 642>>,
      emergency_address |-> <<365, 652>> ]

CHECKBOX_MAPPINGS ==
    [ applicant_category |->
        ( <<"adult">> :> "checkbox_adult" @@
           <<"minor">> :> "checkbox_minor" ),
      sex |->
        ( <<"male">> :> "checkbox_male" @@
           <<"female">> :> "checkbox_female" ),
      civil_status |->
        ( <<"single">> :> "checkbox_single" @@
           <<"married">> :> "checkbox_married" @@
           <<"widow">> :> "checkbox_widow" @@
           <<"widower">> :> "checkbox_widow" @@
           <<"legally", "_", "separated">> :> "checkbox_legally_separated" @@
           <<"annulled">> :> "checkbox_annulled" ),
      acquired_by |->
        ( <<"birth">> :> "checkbox_birth" @@
           <<"election">> :> "checkbox_election" @@
           <<"naturalization">> :> "checkbox_naturalization" @@
           <<"ra9225">> :> "checkbox_ra9225" @@
           <<"r", ".", "a", ".", " ", "9225">> :> "checkbox_ra9225" @@
           <<"others">> :> "checkbox_others_citizenship" ),
      foreign_citizenship_mode |->
        ( <<"birth">> :> "checkbox_foreign_mode_birth" @@
           <<"naturalization">> :> "checkbox_foreign_mode_naturalization" @@
           <<"others">> :> "checkbox_foreign_mode_others" ) ]

TEXT_FIELD_MAPPINGS ==
    << <<<<"personal_info", ".", "last_name">>, "last_name">>,
       <<<<"personal_info", ".", "first_name">>, "first_name">>,
       <<<<"personal_info", ".", "middle_name">>, "middle_name">>,
       <<<<"personal_info", ".", "place_of_birth">>, "place_of_birth">>,
       <<<<"personal_info", ".", "date_of_birth", ".", "day">>, "dob_day">>,
       <<<<"personal_info", ".", "date_of_birth", ".", "month">>, "dob_month">>,
       <<<<"personal_info", ".", "date_of_birth", ".", "year">>, "dob_year">>,
       <<<<"personal_info", ".", "national_id">>, "national_id">>,
       <<<<"personal_info", ".", "present_address">>, "present_address">>,
       <<<<"personal_info", ".", "contact_no">>, "contact_no">>,
       <<<<"personal_info", ".", "email">>, "email">>,
       <<<<"family_info", ".", "spouse_name">>, "spouse_name">>,
       <<<<"family_info", ".", "spouse_citizenship">>, "spouse_citizenship">>,
       <<<<"family_info", ".", "father_name">>, "father_name">>,
       <<<<"family_info", ".", "father_citizenship">>, "father_citizenship">>,
       <<<<"family_info", ".", "mother_maiden_name">>, "mother_maiden_name">>,
       <<<<"family_info", ".", "mother_citizenship">>, "mother_citizenship">>,
       <<<<"citizenship_info", ".", "foreign_citizenship", ".", "country">>, "foreign_citizenship_country">>,
       <<<<"citizenship_info", ".", "foreign_military", ".", "country">>, "military_country">>,
       <<<<"citizenship_info", ".", "foreign_passport", ".", "country">>, "foreign_passport_country">>,
       <<<<"citizenship_info", ".", "philippine_passport", ".", "number">>, "ph_passport_number">>,
       <<<<"citizenship_info", ".", "philippine_passport", ".", "date_of_issue">>, "ph_passport_date_of_issue">>,
       <<<<"citizenship_info", ".", "philippine_passport", ".", "place_of_issue">>, "ph_passport_place_of_issue">>,
       <<<<"minor_info", ".", "accompanied_by">>, "accompanied_by">>,
       <<<<"minor_info", ".", "relationship">>, "minor_relationship">>,
       <<<<"minor_info", ".", "accompanying_mobile">>, "accompanying_mobile">>,
       <<<<"emergency_contact", ".", "name">>, "emergency_name">>,
       <<<<"emergency_contact", ".", "mobile">>, "emergency_mobile">>,
       <<<<"emergency_contact", ".", "relationship">>, "emergency_relationship">>,
       <<<<"emergency_contact", ".", "address">>, "emergency_address">> >>

(* ------------------------ rendering primitive --------------------------- *)

\* page.insert_text(point, text, fontname, fontsize): one more overlay
Overlay(x, y, text, fontsize) ==
    [at |-> <<x, y>>, text |-> text, font |-> FONT_NAME, size |-> fontsize]

insert_text(pg, x, y, text, fontsize) ==
    IF text # <<>> /\ Strip(text) # <<>>
    THEN Append(pg, Overlay(x, y, text, fontsize))
    ELSE pg

insert_checkbox(pg, x, y) ==
    Append(pg, Overlay(x, y, CHECKBOX_CHAR, CHECKBOX_FONT_SIZE))

(* ---------------------------- resolvePath ------------------------------- *)

Raised(e) == [t |-> "raise", exc |-> e]

RECURSIVE descend(_, _)
\* the for loop of get_nested_value over the remaining keys
descend(value, keys) ==
    IF keys = <<>> THEN value
    ELSE IF IsDict(value) /\ Concat(Head(keys)) \in DOMAIN value.d
         THEN descend(value.d[Concat(Head(keys))], Tail(keys))
         ELSE N

RECURSIVE descend_unguarded(_, _)
\* the loop without the isinstance test: `key in value` is a substring test
\* on a str and a TypeError on None, a bool or an int; value[key] on a str
\* is a TypeError
descend_unguarded(value, keys) ==
    IF keys = <<>> THEN value
    ELSE CASE value.t = "dict" ->
                IF Concat(Head(keys)) \in DOMAIN value.d
                THEN descend_unguarded(value.d[Concat(Head(keys))], Tail(keys))
                ELSE N
           [] value.t = "str" ->
                IF Head(keys) = <<>> \/ \E i \in 1..Len(value.s) : value.s[i] = Concat(Head(keys))
                THEN Raised("TypeError")
                ELSE N
           [] OTHER -> Raised("TypeError")

get_nested_value_unguarded(dat, p) == descend_unguarded(dat, Split(p, "."))

get_nested_value(dat, p) == descend(dat, Split(p, "."))

(* -------------------------- renderCheckboxes ---------------------------- *)

\* v.get(key, default): only a dict has .get
attr_get(v, key, default) ==
    IF v.t = "raise" THEN v
    ELSE IF IsDict(v) THEN dict_get(v, key, default)
    ELSE Raised("AttributeError")

\* v.lower(): only a str has .lower
attr_lower(v) ==
    IF v.t = "raise" THEN v
    ELSE IF IsStr(v) THEN S(Lower(v.s))
    ELSE Raised("AttributeError")

Raise(st, e) == [st EXCEPT !.exc = e]

\* if checkbox_key in FIELD_COORDINATES: insert_checkbox(page, x, y)
mark_field(st, checkbox_key) ==
    IF checkbox_key \in DOMAIN FIELD_COORDINATES
    THEN [st EXCEPT !.page = insert_checkbox(@, FIELD_COORDINATES[checkbox_key][1],
                                                FIELD_COORDINATES[checkbox_key][2])]
    ELSE st

\* a lookup that falls back to the group's first entry when the value is unknown
mark_group_default(st, group, value) ==
    IF group \notin DOMAIN CHECKBOX_MAPPINGS THEN Raise(st, "KeyError")
    ELSE IF value \in DOMAIN CHECKBOX_MAPPINGS[group]
         THEN mark_field(st, CHECKBOX_MAPPINGS[group][value])
         ELSE mark_field(st, CHECKBOX_MAPPINGS[group][
                  CHOOSE k \in DOMAIN CHECKBOX_MAPPINGS[group] : TRUE])

\* if value in CHECKBOX_MAPPINGS[group]: mark CHECKBOX_MAPPINGS[group][value]
mark_group(st, group, value) ==
    IF group \notin DOMAIN CHECKBOX_MAPPINGS THEN Raise(st, "KeyError")
    ELSE IF value \in DOMAIN CHECKBOX_MAPPINGS[group]
         THEN mark_field(st, CHECKBOX_MAPPINGS[group][value])
         ELSE st

\* one enumerated group: section.get(key, "").lower() [.replace(" ", "_")]
enum_block(st, section, key, group, underscore) ==
    IF st.exc # "" THEN st
    ELSE LET low == attr_lower(attr_get(section, key, S(<<>>)))
         IN  IF low.t = "raise" THEN Raise(st, low.exc)
             ELSE mark_group(st, group, IF underscore THEN ReplaceSpace(low.s) ELSE low.s)

\* one yes/no group: if holder.get(key): mark yes, else: mark no
yes_no_block(st, holder, key, yes, no) ==
    IF st.exc # "" THEN st
    ELSE LET flag == attr_get(holder, key, N)
         IN  IF flag.t = "raise" THEN Raise(st, flag.exc)
             ELSE IF Truthy(flag) THEN mark_field(st, yes) ELSE mark_field(st, no)

\* foreign citizenship yes/no with the dependent mode of acquisition
foreign_citizenship_block(st, citizenship) ==
    IF st.exc # "" THEN st
    ELSE LET foreign_cit == attr_get(citizenship, "foreign_citizenship", EmptyDict)
             flag == attr_get(foreign_cit, "acquired", N)
         IN  IF flag.t = "raise" THEN Raise(st, flag.exc)
             ELSE IF Truthy(flag)
                  THEN enum_block(mark_field(st, "checkbox_foreign_citizenship_yes"),
                                  foreign_cit, "mode", "foreign_citizenship_mode", FALSE)
                  ELSE mark_field(st, "checkbox_foreign_citizenship_no")

\* the mode of acquisition looked up first and whatever the flag says
fill_checkboxes_ungated(pg, dat) ==
    LET citizenship == attr_get(dat, "citizenship_info", EmptyDict)
        foreign_cit == attr_get(citizenship, "foreign_citizenship", EmptyDict)
        s0 == [page |-> pg, exc |-> ""]
        s1 == enum_block(s0, foreign_cit, "mode", "foreign_citizenship_mode", FALSE)
        s2 == yes_no_block(s1, foreign_cit, "acquired",
                           "checkbox_foreign_citizenship_yes", "checkbox_foreign_citizenship_no")
        app_type == attr_get(dat, "application_type", EmptyDict)
        s3 == enum_block(s2, app_type, "applicant_category", "applicant_category", FALSE)
    IN  enum_block(s3, app_type, "processing_type", "processing_type", FALSE)

fill_checkboxes(pg, dat) ==
    LET app_type == attr_get(dat, "application_type", EmptyDict)
        personal == attr_get(dat, "personal_info", EmptyDict)
        citizenship == attr_get(dat, "citizenship_info", EmptyDict)
        s0 == [page |-> pg, exc |-> ""]
        s1 == enum_block(s0, app_type, "applicant_category", "applicant_category", FALSE)
        s2 == enum_block(s1, app_type, "processing_type", "processing_type", FALSE)
        s3 == enum_block(s2, personal, "sex", "sex", FALSE)
        s4 == enum_block(s3, personal, "civil_status", "civil_status", TRUE)
        s5 == enum_block(s4, citizenship, "acquired_by", "acquired_by", FALSE)
        s6 == foreign_citizenship_block(s5, citizenship)
        s7 == yes_no_block(s6, attr_get(citizenship, "foreign_military", EmptyDict), "served",
                           "checkbox_military_yes", "checkbox_military_no")
        s8 == yes_no_block(s7, citizenship, "renounced_philippine_citizenship",
                           "checkbox_renounced_yes", "checkbox_renounced_no")
        s9 == yes_no_block(s8, attr_get(citizenship, "foreign_passport", EmptyDict), "issued",
                           "checkbox_foreign_passport_yes", "checkbox_foreign_passport_no")
    IN  yes_no_block(s9, attr_get(citizenship, "philippine_passport", EmptyDict), "issued",
                     "checkbox_ph_passport_yes", "checkbox_ph_passport_no")

(* ------------------------- renderScalarFields --------------------------- *)

RECURSIVE fill_text_from(_, _, _)
\* the loop of fill_text_fields from the i-th item of TEXT_FIELD_MAPPINGS on
fill_text_from(pg, dat, i) ==
    IF i > Len(TEXT_FIELD_MAPPINGS) THEN pg
    ELSE LET json_path == TEXT_FIELD_MAPPINGS[i][1]
             coord_key == TEXT_FIELD_MAPPINGS[i][2]
             value == get_nested_value(dat, json_path)
         IN  IF Truthy(value) /\ coord_key \in DOMAIN FIELD_COORDINATES
             THEN fill_text_from(insert_text(pg, FIELD_COORDINATES[coord_key][1],
                                             FIELD_COORDINATES[coord_key][2],
                                             Str(value), FONT_SIZE), dat, i + 1)
             ELSE fill_text_from(pg, dat, i + 1)

fill_text_fields(pg, dat) == fill_text_from(pg, dat, 1)

(* -------------------------- deriveDisplayName --------------------------- *)

NA == <<"N", "/", "A">>

RECURSIVE name_parts(_)
\* the loop over [first_name, middle_name, last_name]: the parts kept, or the
\* exception of part.upper() on a truthy part that is not a str
name_parts(parts) ==
    IF parts = <<>> THEN [exc |-> "", kept |-> <<>>]
    ELSE LET part == Head(parts)
             rest == name_parts(Tail(parts))
         IN  IF ~Truthy(part) THEN rest
             ELSE IF ~IsStr(part) THEN [exc |-> "AttributeError", kept |-> <<>>]
             ELSE IF rest.exc # "" THEN rest
             ELSE IF Upper(part.s) # NA THEN [rest EXCEPT !.kept = <<part.s>> \o @]
             ELSE rest

extract_full_name(dat) ==
    LET personal == attr_get(dat, "personal_info", EmptyDict)
        first_name == attr_get(personal, "first_name", S(<<>>))
        middle_name == attr_get(personal, "middle_name", S(<<>>))
        last_name == attr_get(personal, "last_name", S(<<>>))
        r == name_parts(<<first_name, middle_name, last_name>>)
    IN  IF first_name.t = "raise" THEN first_name
        ELSE IF r.exc # "" THEN Raised(r.exc)
        ELSE S(Join(r.kept, <<" ">>))

(* ------------------------------- generate ------------------------------- *)

\* doc.tobytes(): the template with the overlays in the order they were made
tobytes(pg) == [template |-> "PASSPORT-DIV-APP-FORM-2025.pdf", overlays |-> pg]

\* the scalar pass after a checkbox pass that ended as c: skipped when c raised
then_text_fields(c, dat) ==
    IF c.exc # "" THEN c
    ELSE [page |-> fill_text_fields(c.page, dat), exc |-> ""]

\* the two passes over one page, in the order of generate (checkboxes, then
\* scalar fields) or in the opposite order; a pass that raises ends the run
render_passes(pg, dat, checkboxes_first) ==
    IF checkboxes_first
    THEN then_text_fields(fill_checkboxes(pg, dat), dat)
    ELSE fill_checkboxes(fill_text_fields(pg, dat), dat)

\* lines 251-257 after the passes ended as r: serialize, close, derive the name
serialize_and_name(r, full_name) ==
    IF r.exc # ""
    THEN [page |-> r.page, doc |-> "open", exc |-> r.exc, ret |-> N]
    ELSE IF full_name.t = "raise"
    THEN [page |-> r.page, doc |-> "closed", exc |-> full_name.exc, ret |-> N]
    ELSE [page |-> r.page, doc |-> "closed", exc |-> "",
          ret |-> [t |-> "tuple", bytes |-> tobytes(r.page), name |-> full_name.s]]

\* generate drawing on the page the previous call left behind (a document
\* kept between calls) instead of a freshly opened template
generate_filled_pdf_bytes_reusing(dat, openable) ==
    IF ~openable
    THEN [page |-> <<>>, doc |-> "none", exc |-> "FileNotFoundError", ret |-> N]
    ELSE serialize_and_name(render_passes(page, dat, TRUE), extract_full_name(dat))

\* the outcome of generate_filled_pdf_bytes: the page, the handle, the
\* exception raised ("" for none) and the value returned
generate_filled_pdf_bytes(dat, openable) ==
    IF ~openable
    THEN [page |-> <<>>, doc |-> "none", exc |-> "FileNotFoundError", ret |-> N]
    ELSE serialize_and_name(render_passes(<<>>, dat, TRUE), extract_full_name(dat))

(* --------------------- webhook server and CLI (callers) ----------------- *)

\* name in s for a str s: some run of its tokens spells the name
Spells(s, name) ==
    \E i, j \in 1..Len(s) : i <= j /\ Concat(SubSeq(s, i, j)) = name

Verdict(is_valid) == [t |-> "verdict", valid |-> is_valid]

RECURSIVE check_required(_, _)
\* the loop over required_fields: `field not in personal or not personal[field]`
check_required(personal, fields) ==
    IF fields = <<>> THEN Verdict(TRUE)
    ELSE CASE personal.t = "dict" ->
                IF Head(fields) \notin DOMAIN personal.d \/ ~Truthy(personal.d[Head(fields)])
                THEN Verdict(FALSE)
                ELSE check_required(personal, Tail(fields))
           [] personal.t = "str" ->
                IF Spells(personal.s, Head(fields)) THEN Raised("TypeError")
                ELSE Verdict(FALSE)
           [] OTHER -> Raised("TypeError")

validate_applicant_data(dat) ==
    IF "personal_info" \notin DOMAIN dat.d THEN Verdict(FALSE)
    ELSE check_required(dict_get(dat, "personal_info", EmptyDict),
                        <<"last_name", "first_name">>)

\* requests.post inside try/except RequestException: success or not
send_to_external_api(api_ok) == [success |-> api_ok]

\* what a caller's run leaves: the response status (exit status for the CLI),
\* whether the call that opens the template was made, the sends attempted,
\* the exception caught or propagated, and what the engine left
Outcome(status, invoked, sends, e, g) ==
    [status |-> status, invoked |-> invoked, sends |-> sends, exc |-> e,
     page |-> g.page, doc |-> g.doc, ret |-> g.ret]

NotRun == [page |-> <<>>, doc |-> "none", exc |-> "", ret |-> N]

\* lines 163-182 of the /webhook handler once generate ended as g
send_and_respond(g, api_ok) ==
    IF g.exc # "" THEN Outcome(500, TRUE, 0, g.exc, g)
    ELSE IF send_to_external_api(api_ok).success
         THEN Outcome(200, TRUE, 1, "", g)
         ELSE Outcome(502, TRUE, 1, "", g)

\* the /webhook handler without the validation step
webhook_unvalidated(dat, is_json, exists, openable, api_ok) ==
    IF ~is_json THEN Outcome(400, FALSE, 0, "", NotRun)
    ELSE IF ~exists THEN Outcome(500, FALSE, 0, "", NotRun)
    ELSE send_and_respond(generate_filled_pdf_bytes(dat, openable), api_ok)

\* the steps of a handler after validation ended as v
after_validation(v, rest) ==
    IF v.t = "raise" THEN Outcome(500, FALSE, 0, v.exc, NotRun)
    ELSE IF ~v.valid THEN Outcome(400, FALSE, 0, "", NotRun)
    ELSE rest

\* the /webhook handler
webhook(dat, is_json, exists, openable, api_ok) ==
    IF ~is_json THEN Outcome(400, FALSE, 0, "", NotRun)
    ELSE after_validation(validate_applicant_data(dat),
            IF ~exists THEN Outcome(500, FALSE, 0, "", NotRun)
            ELSE send_and_respond(generate_filled_pdf_bytes(dat, openable), api_ok))

\* lines 220-227 of the /generate handler once generate ended as g: the PDF
\* itself is the response
respond_with_pdf(g) ==
    IF g.exc # "" THEN Outcome(500, TRUE, 0, g.exc, g)
    ELSE Outcome(200, TRUE, 0, "", g)

\* the /generate handler
generate_only(dat, is_json, openable) ==
    IF ~is_json THEN Outcome(400, FALSE, 0, "", NotRun)
    ELSE after_validation(validate_applicant_data(dat),
            respond_with_pdf(generate_filled_pdf_bytes(dat, openable)))

\* lines 293-299 after the passes ended as r: save, close, return the path
save_and_close(r) ==
    IF r.exc # ""
    THEN [page |-> r.page, doc |-> "open", exc |-> r.exc, ret |-> N]
    ELSE [page |-> r.page, doc |-> "closed", exc |-> "",
          ret |-> [t |-> "saved", bytes |-> tobytes(r.page)]]

\* fill_passport_form(template_path, data_path, output_path): the engine run
\* of the CLI, saving to a file
fill_passport_form(dat, openable) ==
    IF ~openable
    THEN [page |-> <<>>, doc |-> "none", exc |-> "FileNotFoundError", ret |-> N]
    ELSE save_and_close(render_passes(<<>>, dat, TRUE))

\* the exit of the CLI once the run ended as g: an exception is not caught
exit_status(g) ==
    IF g.exc # "" THEN Outcome(1, TRUE, 0, g.exc, g)
    ELSE Outcome(0, TRUE, 0, "", g)

\* main(): exit(1) when the template or the data file is missing
main(dat, exists, data_exists, openable) ==
    IF ~exists THEN Outcome(1, FALSE, 0, "", NotRun)
    ELSE IF ~data_exists THEN Outcome(1, FALSE, 0, "", NotRun)
    ELSE exit_status(fill_passport_form(dat, openable))

(* ------------------------- applicant records ---------------------------- *)

Absent == [t |-> "absent"]

\* the dict with the entries of E whose value is present
Dict(E) ==
    D([k \in {e[1] : e \in {x \in E : x[2] # Absent}} |-> (CHOOSE e \in E : e[1] = k)[2]])

W(word) == S(<<word>>)

Ints == {I(n) : n \in 0..MaxInt}

BasePersonal == Dict({<<"first_name", W("Maria")>>, <<"last_name", W("Santos")>>})

BaseAppType == Dict({<<"applicant_category", W("Adult")>>})

CategoryValues ==
    { Absent, N, I(MaxInt), S(<<>>), W("adult"), W("Adult"), W("ADULT"), W("minor"),
      W("zzz"), S(<<" ", "Adult", " ">>) }

AppTypes ==
    { Absent, N, W("zzz"), EmptyDict }
    \cup { Dict({<<"applicant_category", c>>, <<"processing_type", p>>}) :
             c \in CategoryValues, p \in {Absent, N, W("Regular")} }

FirstNames ==
    { Absent, N, B(TRUE), S(<<>>), S(<<"N", "/", "A">>), S(<<"n", "/", "a">>), W("Maria") }

MiddleNames == { Absent, S(<<"N", "/", "a">>), S(<<" ">>), W("Cruz") }

LastNames == { Absent, I(MaxInt), W("Santos"), W("Reyes") }

Personals ==
    { Absent, N, W("zzz") }
    \cup { Dict({<<"first_name", f>>, <<"middle_name", m>>, <<"last_name", l>>}) :
             f \in FirstNames, m \in MiddleNames, l \in LastNames }
    \cup { Dict({<<"first_name", W("Maria")>>, <<"last_name", W("Santos")>>,
                 <<"sex", s>>, <<"civil_status", c>>}) :
             s \in { Absent, W("Male"), W("female"), S(<<"male", " ">>) },
             c \in { Absent, B(TRUE), W("Single"), W("zzz"), S(<<" ", "single">>),
                     S(<<"Legally", " ", "Separated">>),
                     S(<<"legally", "_", "separated">>) } }

Flags == { Absent, B(TRUE), B(FALSE) }

ForeignCitizenships ==
    { Absent, N }
    \cup { Dict({<<"acquired", a>>, <<"mode", m>>}) :
             a \in Flags \cup { W("yes"), I(0) },
             m \in { Absent, W("birth"), W("Naturalization"), W("zzz") } }

Citizenships ==
    { N }
    \cup { Dict({<<"acquired_by", a>>}) :
             a \in { N, W("Birth"), W("ra9225"), W("zzz"),
                     S(<<"R", ".", "A", ".", " ", "9225">>) } }
    \cup { Dict({<<"foreign_citizenship", fc>>,
                 <<"foreign_military", Dict({<<"served", served>>})>>,
                 <<"renounced_philippine_citizenship", renounced>>,
                 <<"philippine_passport", pp>>}) :
             fc \in ForeignCitizenships, served \in Flags, renounced \in Flags,
             pp \in { Absent, Dict({<<"issued", B(TRUE)>>}) } }

LeafValues ==
    { Absent, N, S(<<>>), S(<<" ">>), S(<<"\t", " ">>), W("Manila"), B(TRUE), B(FALSE),
      EmptyDict, Dict({<<"x", W("Manila")>>}) } \cup Ints

Leaves ==
    { Dict({<<"last_name", l>>, <<"date_of_birth", dob>>}) :
        l \in LeafValues,
        dob \in { Absent, W("1990") } \cup { Dict({<<"day", day>>}) : day \in LeafValues } }

Records ==
    { Dict({<<"application_type", a>>, <<"personal_info", BasePersonal>>}) : a \in AppTypes }
    \cup { Dict({<<"application_type", BaseAppType>>, <<"personal_info", p>>}) :
             p \in Personals \cup Leaves }
    \cup { Dict({<<"application_type", BaseAppType>>, <<"personal_info", BasePersonal>>,
                 <<"citizenship_info", c>>}) : c \in Citizenships }

\* the request bodies the callers are tried on
HttpRecords ==
    { EmptyDict, Dict({<<"application_type", BaseAppType>>}) }
    \cup { Dict({<<"personal_info", p>>}) :
             p \in { N, I(MaxInt), EmptyDict, W("zzz"), S(<<"last", "_", "name">>) } }
    \cup { Dict({<<"application_type", BaseAppType>>,
                 <<"personal_info", Dict({<<"first_name", f>>, <<"last_name", l>>})>>}) :
             f \in FirstNames, l \in LastNames \cup { S(<<>>), N } }

\* the records and the dotted paths get_nested_value is tried on
PathLeaves == { N, W("Manila"), EmptyDict, Dict({<<"day", W("12")>>}), Dict({<<"", I(MaxInt)>>}) }

PathRecords ==
    { EmptyDict, Dict({<<"day", W("12")>>}), Dict({<<"", W("Manila")>>}) }
    \cup { Dict({<<"personal_info", p>>}) : p \in PathLeaves }
    \cup { Dict({<<"personal_info", Dict({<<"date_of_birth", v>>})>>}) : v \in PathLeaves }

PathKeys == { <<>>, <<"personal_info">>, <<"date_of_birth">>, <<"day">> }

Paths ==
    { Join(ks, <<".">>) : ks \in UNION { [1..n -> PathKeys] : n \in 1..MaxSegs } }

(* ---------------------------- state machine ----------------------------- *)

\* no call of generate made so far
NoCall == [n |-> 0]

\* no request received, no response given
NoRequest == [is_json |-> FALSE, exists |-> FALSE, data_exists |-> FALSE, api_ok |-> FALSE]

NoResponse == [status |-> 0, invoked |-> FALSE, sends |-> 0]

Idle ==
    /\ op = "idle"
    /\ path = <<>>
    /\ tmplOK = TRUE
    /\ page = <<>>
    /\ doc = "none"
    /\ exc = ""
    /\ ret = N
    /\ earlier = NoCall
    /\ req = NoRequest
    /\ resp = NoResponse

Init == data \in Records /\ Idle

InitPath == data \in PathRecords /\ Idle

\* generate_filled_pdf_bytes(data, template_path)
Generate ==
    \E openable \in BOOLEAN :
        LET r == generate_filled_pdf_bytes(data, openable)
        IN  /\ earlier.n < MaxCalls
            /\ earlier' = [n |-> earlier.n + 1, openable |-> openable, page |-> r.page,
                           doc |-> r.doc, exc |-> r.exc, ret |-> r.ret]
            /\ UNCHANGED <<req, resp>>
            /\ op' = "generate"
            /\ tmplOK' = openable
            /\ page' = r.page
            /\ doc' = r.doc
            /\ exc' = r.exc
            /\ ret' = r.ret
            /\ path' = <<>>
            /\ UNCHANGED data

\* fill_checkboxes(page, data) on a blank page
FillCheckboxes ==
    LET r == fill_checkboxes(<<>>, data)
    IN  /\ op' = "fill_checkboxes"
        /\ page' = r.page
        /\ exc' = r.exc
        /\ ret' = N
        /\ doc' = "none"
        /\ path' = <<>>
        /\ UNCHANGED <<data, tmplOK, earlier, req, resp>>

\* fill_text_fields(page, data) on a blank page
FillTextFields ==
    /\ op' = "fill_text_fields"
    /\ page' = fill_text_fields(<<>>, data)
    /\ exc' = ""
    /\ ret' = N
    /\ doc' = "none"
    /\ path' = <<>>
    /\ UNCHANGED <<data, tmplOK, earlier, req, resp>>

\* both passes on a blank page, checkboxes first or scalar fields first
RenderPasses ==
    \E checkboxes_first \in BOOLEAN :
        LET r == render_passes(<<>>, data, checkboxes_first)
        IN  /\ op' = IF checkboxes_first THEN "render_checkboxes_first"
                                         ELSE "render_scalars_first"
            /\ page' = r.page
            /\ exc' = r.exc
            /\ ret' = N
            /\ doc' = "none"
            /\ path' = <<>>
            /\ UNCHANGED <<data, tmplOK, earlier, req, resp>>

\* extract_full_name(data)
ExtractFullName ==
    LET r == extract_full_name(data)
    IN  /\ op' = "extract_full_name"
        /\ exc' = IF r.t = "raise" THEN r.exc ELSE ""
        /\ ret' = IF r.t = "raise" THEN N ELSE r
        /\ page' = <<>>
        /\ doc' = "none"
        /\ path' = <<>>
        /\ UNCHANGED <<data, tmplOK, earlier, req, resp>>

\* get_nested_value(data, path)
GetNestedValue ==
    \E p \in Paths :
        LET r == get_nested_value(data, p)
        IN  /\ op' = "get_nested_value"
            /\ path' = p
            /\ exc' = IF r.t = "raise" THEN r.exc ELSE ""
            /\ ret' = IF r.t = "raise" THEN N ELSE r
            /\ page' = <<>>
            /\ doc' = "none"
            /\ UNCHANGED <<data, tmplOK, earlier, req, resp>>

Next == Generate \/ FillCheckboxes \/ FillTextFields \/ RenderPasses \/ ExtractFullName

Spec == Init /\ [][Next]_vars

InitHttp == data \in HttpRecords /\ Idle

\* what a caller's run leaves in the state
Responds(name, request, openable, r) ==
    /\ op' = name
    /\ req' = request
    /\ tmplOK' = openable
    /\ resp' = [status |-> r.status, invoked |-> r.invoked, sends |-> r.sends]
    /\ exc' = r.exc
    /\ page' = r.page
    /\ doc' = r.doc
    /\ ret' = r.ret
    /\ path' = <<>>
    /\ UNCHANGED <<data, earlier>>

\* POST /webhook
Webhook ==
    \E is_json, exists, openable, api_ok \in BOOLEAN :
        /\ openable => exists
        /\ Responds("webhook",
                  [is_json |-> is_json, exists |-> exists, data_exists |-> FALSE,
                   api_ok |-> api_ok],
                  openable, webhook(data, is_json, exists, openable, api_ok))

\* POST /generate
GenerateOnly ==
    \E is_json, exists, openable \in BOOLEAN :
        /\ openable => exists
        /\ Responds("generate_only",
                  [is_json |-> is_json, exists |-> exists, data_exists |-> FALSE,
                   api_ok |-> FALSE],
                  openable, generate_only(data, is_json, openable))

\* python fill_passport_form.py --template ... --data ... --output ...
CliMain ==
    \E exists, data_exists, openable \in BOOLEAN :
        /\ openable => exists
        /\ Responds("main",
                  [is_json |-> FALSE, exists |-> exists, data_exists |-> data_exists,
                   api_ok |-> FALSE],
                  openable, main(data, exists, data_exists, openable))

NextHttp == Webhook \/ GenerateOnly \/ CliMain

SpecHttp == InitHttp /\ [][NextHttp]_vars

NextPath == GetNestedValue

SpecPath == InitPath /\ [][NextPath]_vars

(* ------------------------- reading the outcome -------------------------- *)

\* a check mark is on the page at the coordinate of the field
Marked(field) ==
    \E i \in 1..Len(page) :
        page[i].at = FIELD_COORDINATES[field] /\ page[i].text = CHECKBOX_CHAR

\* the texts written at the coordinate of the field
TextsAt(field) ==
    { page[i].text : i \in { j \in 1..Len(page) : page[j].at = FIELD_COORDINATES[field] } }

\* a page was rendered by the last operation
Rendered == op = "fill_checkboxes" \/ (op = "generate" /\ tmplOK)

\* the normalization the schema documents: lowercase, trim, spaces to underscores
Normalize(s) == ReplaceSpace(Strip(Lower(s)))

GroupPath ==
    [ applicant_category |-> <<"application_type", ".", "applicant_category">>,
      sex |-> <<"personal_info", ".", "sex">>,
      civil_status |-> <<"personal_info", ".", "civil_status">>,
      acquired_by |-> <<"citizenship_info", ".", "acquired_by">>,
      foreign_citizenship_mode |-> <<"citizenship_info", ".", "foreign_citizenship", ".", "mode">> ]

GroupValue(group) == get_nested_value(data, GroupPath[group])

GroupFields(group) == { CHECKBOX_MAPPINGS[group][k] : k \in DOMAIN CHECKBOX_MAPPINGS[group] }

AcquiredFlag ==
    get_nested_value(data, <<"citizenship_info", ".", "foreign_citizenship", ".", "acquired">>)

YesNoGroups ==
    { [flag |-> <<"citizenship_info", ".", "foreign_citizenship", ".", "acquired">>,
       yes |-> "checkbox_foreign_citizenship_yes", no |-> "checkbox_foreign_citizenship_no"],
      [flag |-> <<"citizenship_info", ".", "foreign_military", ".", "served">>,
       yes |-> "checkbox_military_yes", no |-> "checkbox_military_no"],
      [flag |-> <<"citizenship_info", ".", "renounced_philippine_citizenship">>,
       yes |-> "checkbox_renounced_yes", no |-> "checkbox_renounced_no"],
      [flag |-> <<"citizenship_info", ".", "foreign_passport", ".", "issued">>,
       yes |-> "checkbox_foreign_passport_yes", no |-> "checkbox_foreign_passport_no"],
      [flag |-> <<"citizenship_info", ".", "philippine_passport", ".", "issued">>,
       yes |-> "checkbox_ph_passport_yes", no |-> "checkbox_ph_passport_no"] }

(* ------------------------------- claims --------------------------------- *)

\* C1: with an openable template generate returns (bytes, displayName) for
\* every record and raises nothing, whatever the shape of the data.
C1_GenerateReturnsForEveryRecord ==
    (op = "generate" /\ tmplOK) => (exc = "" /\ ret.t = "tuple")

\* C2: a schema lookup with no entry in the tables is a no-op: no lookup of a
\* checkbox group ends in the error of a missing key.
C2_MissingEntryIsNoOp ==
    Rendered => exc # "KeyError"

\* C3: when generate has terminated, normally or by an error, the template
\* handle it opened is closed.
C3_HandleClosedOnEveryExit ==
    op = "generate" => doc # "open"

\* C4: for every entry of the Scalar Field Table nothing is written at the
\* field when the path resolves to absent, empty or a composite, and the
\* textual representation of the value is written there in every other case.
C4_ScalarFieldRule ==
    op = "fill_text_fields" =>
        \A i \in 1..Len(TEXT_FIELD_MAPPINGS) :
            LET value == get_nested_value(data, TEXT_FIELD_MAPPINGS[i][1])
                field == TEXT_FIELD_MAPPINGS[i][2]
            IN  IF value = N \/ value = S(<<>>) \/ IsDict(value)
                THEN TextsAt(field) = {}
                ELSE TextsAt(field) = {Str(value)}

\* C5: for each binary yes/no group exactly one of the two fields is marked
\* on the rendered page: "yes" when the flag is truthy, "no" otherwise.
C5_ExactlyOneOfYesNo ==
    Rendered =>
        \A g \in YesNoGroups :
            /\ Marked(g.yes) # Marked(g.no)
            /\ Marked(g.yes) <=> Truthy(get_nested_value(data, g.flag))

\* C6: for every group of the Checkbox Group Table at most one field of the
\* group is marked, and a marked field is the one the table maps the group's
\* normalized value to.
C6_AtMostOnePerGroup ==
    Rendered =>
        \A group \in DOMAIN CHECKBOX_MAPPINGS :
            LET marked == { f \in GroupFields(group) : Marked(f) }
                value == GroupValue(group)
            IN  /\ Cardinality(marked) <= 1
                /\ \A f \in marked :
                      /\ IsStr(value)
                      /\ Normalize(value.s) \in DOMAIN CHECKBOX_MAPPINGS[group]
                      /\ CHECKBOX_MAPPINGS[group][Normalize(value.s)] = f

\* C6 witness: a page on which the category group has its mapped field marked
C6_Witness ==
    /\ op = "fill_checkboxes"
    /\ GroupValue("applicant_category") = W("Adult")
    /\ Marked("checkbox_adult")

\* C7: a group value is lowercased, trimmed and has its spaces turned into
\* underscores before it is matched, for every group: the field the table
\* maps the normalized value to is marked and no other field of the group is
\* (the mode group when the acquired flag is truthy).
C7_NormalizedValueSelectsField ==
    Rendered =>
        \A group \in DOMAIN CHECKBOX_MAPPINGS :
            LET value == GroupValue(group)
            IN  ( /\ IsStr(value)
                  /\ Normalize(value.s) \in DOMAIN CHECKBOX_MAPPINGS[group]
                  /\ group = "foreign_citizenship_mode" => Truthy(AcquiredFlag) )
                => { f \in GroupFields(group) : Marked(f) }
                       = { CHECKBOX_MAPPINGS[group][Normalize(value.s)] }

KeptNameParts ==
    LET part(key) == get_nested_value(data, <<"personal_info", ".", key>>)
        keep(v) == IF IsStr(v) /\ v.s # <<>> /\ Upper(v.s) # NA THEN <<v.s>> ELSE <<>>
    IN  keep(part("first_name")) \o keep(part("middle_name")) \o keep(part("last_name"))

\* C9: extract_full_name never raises and returns the parts first, middle,
\* last that are not absent, empty or "N/A", joined by single spaces.
C9_DisplayName ==
    op = "extract_full_name" =>
        (exc = "" /\ ret = S(Join(KeptNameParts, <<" ">>)))

Missing == [t |-> "missing"]

\* one step down a keyed mapping, or Missing
At(v, key) ==
    IF v.t = "dict" /\ Concat(key) \in DOMAIN v.d THEN v.d[Concat(key)] ELSE Missing

\* the value at the end of the keys, written out for up to five keys
ValueAt(v, keys) ==
    LET k(i) == keys[i]
        r == CASE Len(keys) = 1 -> At(v, k(1))
               [] Len(keys) = 2 -> At(At(v, k(1)), k(2))
               [] Len(keys) = 3 -> At(At(At(v, k(1)), k(2)), k(3))
               [] Len(keys) = 4 -> At(At(At(At(v, k(1)), k(2)), k(3)), k(4))
               [] Len(keys) = 5 -> At(At(At(At(At(v, k(1)), k(2)), k(3)), k(4)), k(5))
    IN  IF r = Missing THEN N ELSE r

\* C10: get_nested_value never raises; it returns the value at the end of the
\* path, and absent when a step meets a value that is not a keyed mapping or
\* a mapping without the key.
C10_ResolvePath ==
    op = "get_nested_value" =>
        (exc = "" /\ ret = ValueAt(data, Split(path, ".")))

\* C10 witness: a path one segment deeper than the record, ending on a string
C10_Witness ==
    /\ op = "get_nested_value"
    /\ path = <<"personal_info", ".", "date_of_birth", ".", "day">>
    /\ get_nested_value(data, <<"personal_info", ".", "date_of_birth">>) = W("Manila")
    /\ ret = N

CheckboxTargets ==
    UNION { GroupFields(group) : group \in DOMAIN CHECKBOX_MAPPINGS }
    \cup { g.yes : g \in YesNoGroups } \cup { g.no : g \in YesNoGroups }

ScalarTargets == { TEXT_FIELD_MAPPINGS[i][2] : i \in 1..Len(TEXT_FIELD_MAPPINGS) }

CoordinatesOf(fields) == { FIELD_COORDINATES[f] : f \in fields \cap DOMAIN FIELD_COORDINATES }

\* the overlays on a page, whatever the order they were made in
OverlaySet(pg) == { pg[i] : i \in 1..Len(pg) }

\* the tables are disjoint in fields and in coordinates
TablesDisjoint ==
    /\ CheckboxTargets \cap ScalarTargets = {}
    /\ CoordinatesOf(CheckboxTargets) \cap CoordinatesOf(ScalarTargets) = {}

\* C12: the checkbox pass and the scalar pass write disjoint fields and
\* coordinates, and the two passes applied scalar fields first leave the same
\* overlays on the page as applied checkboxes first, for every record.
C12_PassesCommute ==
    /\ TablesDisjoint
    /\ op = "render_scalars_first" =>
           OverlaySet(page) = OverlaySet(render_passes(<<>>, data, TRUE).page)

\* the record lacks the personal_info section, or its last_name or first_name
\* is missing or empty
LacksIdentity ==
    \/ "personal_info" \notin DOMAIN data.d
    \/ \E key \in {"last_name", "first_name"} :
           get_nested_value(data, <<"personal_info", ".", key>>) \in {N, S(<<>>)}

\* C13: in the /webhook and /generate handlers a request whose record lacks
\* personal_info, or has a missing or empty last_name or first_name, is
\* answered 400 and generate is not invoked for it.
C13_RejectedBeforeCore ==
    (op \in {"webhook", "generate_only"} /\ req.is_json /\ LacksIdentity)
        => (~resp.invoked /\ resp.status = 400)

\* C14: in every caller (the /webhook handler, the /generate handler, the
\* CLI) the call that opens the template is made only when the template
\* exists.
C14_TemplateCheckedBeforeOpen ==
    (op \in {"webhook", "generate_only", "main"} /\ resp.invoked) => req.exists

\* personal_info is a mapping with a truthy last_name and a truthy first_name
IdentityGiven ==
    LET personal == get_nested_value(data, <<"personal_info">>)
    IN  /\ IsDict(personal)
        /\ \A key \in {"last_name", "first_name"} :
               key \in DOMAIN personal.d /\ Truthy(personal.d[key])

====
